---- MODULE Spec2Model ----
(***************************************************************************)
(* Model of mertens/Mertens.ipynb: sieve, prime_factors, mu and M, run by  *)
(* a Python interpreter with a bounded call stack.  One behaviour is one   *)
(* top-level call fn(n0); every call that returns is recorded in a log.    *)
(***************************************************************************)
EXTENDS Integers, Sequences, FiniteSets

(* ---- bounds of the model ---- *)
MaxNeg == 2         \* top-level arguments go down to -MaxNeg
MaxN == 32          \* largest top-level argument of the main specification
MaxFactors == 10    \* cap on len(factors); only prime_factors(0) reaches it
DeepN == 3581       \* a prime beyond the first 500: its search outgrows the stack
MaxRange == 10      \* largest upper bound n of the range the cell is run with

\* n = 500, the upper bound of the range in the notebook
RangeN == 500

(* ---- the interpreter's limit on nested frames (sys.getrecursionlimit()) ---- *)
\* depth counts only the frames of the notebook's functions; the frames of the
\* caller come on top, so the interpreter raises no later than the model does
RecursionLimit == 1000

Fns == {"prime_factors", "mu", "M"}
Inputs == (0 - MaxNeg)..MaxN
DeepInputs == {1, 2, RangeN, RecursionLimit, DeepN, DeepN + 2}
RangeInputs == 1..MaxRange

VARIABLES
  fn,        \* the function of the top-level call, or "cell" for the range cell
  n0,        \* the argument of the top-level call (for the cell: its n)
  pc,        \* control location of the running frame
  depth,     \* number of frames of this program on the interpreter stack
  mstack,    \* the frames of M, outermost first: [n, muv]
  arg,       \* argument handed to the function being entered / run by mu, prime_factors
  n,         \* prime_factors: the local n (the remaining quotient)
  factors,   \* prime_factors: the local list factors
  sieve,     \* the generator sieve(itertools.count(start=2)) of the running for loop
  retval,    \* value returned by the frame that just returned
  outcome,   \* "running", "returned" or "RecursionError"
  result,    \* value of the top-level call, <<v>> once it returned
  pf_ret,    \* log: <<a, v>> for every prime_factors(a) that returned v
  mu_ret,    \* log: <<a, v>> for every mu(a) that returned v
  M_ret,     \* log: <<a, v>> for every M(a) that returned v
  ns,        \* the cell's ns = np.arange(1, n+1)
  Ms         \* the cell's Ms, as far as the list comprehension has built it

vars == <<fn, n0, pc, depth, mstack, arg, n, factors, sieve, retval,
          outcome, result, pf_ret, mu_ret, M_ret, ns, Ms>>

(* ---- sieve ---- *)

\* a counter started one too high
SieveNewFromThree == [count |-> 3, filters |-> <<>>]

\* the generator before its first next(): the counter at 2, no filter yet
SieveNew == [count |-> 2, filters |-> <<>>]

\* a sieve that filters nothing
PassesAll(i, filters) == i = i /\ filters = filters

\* i passes every nested genexp (i for i in s if i%n != 0)
Passes(i, filters) == \A j \in 1..Len(filters) : i % filters[j] # 0

RECURSIVE SieveScan(_, _)
\* the first value the counter delivers, from c on, that passes all the filters
SieveScan(c, filters) ==
  IF Passes(c, filters) THEN c ELSE SieveScan(c + 1, filters)

\* the value the next next() on the generator yields
SieveNext(s) == SieveScan(s.count, s.filters)

\* the generator after that next(): the counter is past the value, and one
\* more sieve frame filters by it
SieveAdvance(s) ==
  [count |-> SieveNext(s) + 1, filters |-> Append(s.filters, SieveNext(s))]

\* frames on the stack while the k-th value is fetched: k sieve frames and
\* the k-1 generator expressions between them and the counter
SieveFrames(s) == 2 * (Len(s.filters) + 1) - 1

(* ---- prime_factors ---- *)

\* a divisibility test that also accepts remainder 1
DividesLoose(m, p) == m % p <= 1

\* n%p == 0
Divides(m, p) == m % p = 0

RECURSIVE QuotientStrip(_, _)
\* a division that removes every power of p at once
QuotientStrip(m, p) ==
  IF m # 0 /\ m % p = 0 THEN QuotientStrip(m \div p, p) ELSE m

\* the division left out
QuotientKeep(m, p) == IF p = p THEN m ELSE 0

\* n /= p (exact: only evaluated when p divides n)
Quotient(m, p) == m \div p

(* ---- mu ---- *)

SeqToSet(s) == {s[i] : i \in 1..Len(s)}

\* the odd branch returns the negated count instead of -1
MuValueCount(fs) ==
  IF Len(fs) # Cardinality(SeqToSet(fs)) THEN 0
  ELSE IF Len(fs) % 2 = 0 THEN 1 ELSE 0 - Len(fs)

\* the parity test placed before the test for repeating factors
MuValueParityFirst(fs) ==
  IF Len(fs) % 2 = 0 THEN 1
  ELSE IF Len(fs) # Cardinality(SeqToSet(fs)) THEN 0 ELSE -1

\* the two parity branches swapped
MuValueSwapped(fs) ==
  IF Len(fs) # Cardinality(SeqToSet(fs)) THEN 0
  ELSE IF Len(fs) % 2 = 0 THEN -1 ELSE 1

\* an empty factor list treated as "no value"
MuValueEmptyZero(fs) ==
  IF Len(fs) = 0 \/ Len(fs) # Cardinality(SeqToSet(fs)) THEN 0
  ELSE IF Len(fs) % 2 = 0 THEN 1 ELSE -1

\* the test for repeating factors left out
MuValueNoRepeatCheck(fs) ==
  IF Len(fs) % 2 = 0 THEN 1 ELSE -1

MuValue(fs) ==
  IF Len(fs) # Cardinality(SeqToSet(fs)) THEN 0
  ELSE IF Len(fs) % 2 = 0 THEN 1 ELSE -1

(* ---- M ---- *)

\* a base case one step too early
MIsBaseEarly(m) == m <= 2

\* if n==1
MIsBase(m) == m = 1

\* a recursion that skips one argument
MNextArgSkip(m) == m - 2

\* the argument of the recursive call M(n-1)
MNextArg(m) == m - 1

\* the recursive value subtracted instead of added
MCombineMinus(muv, rv) == muv - rv

\* mu(n) left out of the sum
MCombineDropMu(muv, rv) == IF muv = muv THEN rv ELSE 0

\* mu(n) + M(n-1)
MCombine(muv, rv) == muv + rv

(* ---- the interpreter ---- *)

\* the interpreter refuses a frame beyond its limit: RecursionError, which no
\* function of the notebook catches
Raise ==
  /\ outcome' = "RecursionError"
  /\ pc' = "raised"

Init ==
  /\ \/ fn \in Fns /\ n0 \in Inputs /\ pc = "call"
     \/ fn = "cell" /\ n0 \in RangeInputs /\ pc = "cell"
  /\ ns = <<>>
  /\ Ms = <<>>
  /\ depth = 0
  /\ mstack = <<>>
  /\ arg = n0
  /\ n = n0
  /\ factors = <<>>
  /\ sieve = SieveNew
  /\ retval = 0
  /\ outcome = "running"
  /\ result = <<>>
  /\ pf_ret = {}
  /\ mu_ret = {}
  /\ M_ret = {}

InitDeep ==
  /\ \/ fn \in Fns /\ n0 \in DeepInputs /\ pc = "call"
     \/ fn = "cell" /\ n0 \in {1, 2} /\ pc = "cell"
  /\ ns = <<>>
  /\ Ms = <<>>
  /\ depth = 0
  /\ mstack = <<>>
  /\ arg = n0
  /\ n = n0
  /\ factors = <<>>
  /\ sieve = SieveNew
  /\ retval = 0
  /\ outcome = "running"
  /\ result = <<>>
  /\ pf_ret = {}
  /\ mu_ret = {}
  /\ M_ret = {}

(* ---- the range cell ---- *)

\* a range that stops one element early
ArangeShort(a, b) == [i \in 1..(b - a - 1) |-> a + i - 1]

\* np.arange(a, b): the integers from a up to b - 1
Arange(a, b) == [i \in 1..(b - a) |-> a + i - 1]

\* n = 500; ns = np.arange(1, n+1); the list comprehension of Ms starts empty
\* (rts, the float curve n**(1/2) handed to the plot, is not modelled)
Cell ==
  /\ pc = "cell"
  /\ ns' = Arange(1, n0 + 1)
  /\ Ms' = <<>>
  /\ pc' = "comprehension"
  /\ UNCHANGED <<fn, n0, depth, mstack, arg, n, factors, sieve, retval,
                 outcome, result, pf_ret, mu_ret, M_ret>>

\* Ms = np.array([M(n) for n in ns]): the next element of ns is handed to M,
\* or the comprehension ends
Comprehension ==
  /\ pc = "comprehension"
  /\ IF Len(Ms) < Len(ns)
     THEN /\ arg' = ns[Len(Ms) + 1]
          /\ pc' = "M"
          /\ UNCHANGED <<result, outcome>>
     ELSE /\ result' = <<Ms>>
          /\ outcome' = "returned"
          /\ pc' = "done"
          /\ UNCHANGED arg
  /\ UNCHANGED <<fn, n0, depth, mstack, n, factors, sieve, retval,
                 pf_ret, mu_ret, M_ret, ns, Ms>>

\* the caller evaluates fn(n0)
Call ==
  /\ pc = "call"
  /\ pc' = fn
  /\ arg' = n0
  /\ UNCHANGED <<Ms, ns, fn, n0, depth, mstack, n, factors, sieve, retval, outcome,
                 result, pf_ret, mu_ret, M_ret>>

\* M(arg) is entered; both branches evaluate mu(n) first
M_Enter ==
  /\ pc = "M"
  /\ IF depth + 1 > RecursionLimit
     THEN /\ Raise
          /\ UNCHANGED <<depth, mstack>>
     ELSE /\ depth' = depth + 1
          /\ mstack' = Append(mstack, [n |-> arg, muv |-> 0])
          /\ pc' = "mu"
          /\ UNCHANGED outcome
  /\ UNCHANGED <<Ms, ns, fn, n0, arg, n, factors, sieve, retval, result,
                 pf_ret, mu_ret, M_ret>>

\* mu(arg) is entered and calls prime_factors(n)
mu_Enter ==
  /\ pc = "mu"
  /\ IF depth + 1 > RecursionLimit
     THEN /\ Raise
          /\ UNCHANGED depth
     ELSE /\ depth' = depth + 1
          /\ pc' = "prime_factors"
          /\ UNCHANGED outcome
  /\ UNCHANGED <<Ms, ns, fn, n0, mstack, arg, n, factors, sieve, retval, result,
                 pf_ret, mu_ret, M_ret>>

\* prime_factors(arg) is entered: if n == 1: return []; factors = []
prime_factors_Enter ==
  /\ pc = "prime_factors"
  /\ IF depth + 1 > RecursionLimit
     THEN /\ Raise
          /\ UNCHANGED <<depth, n, factors>>
     ELSE /\ depth' = depth + 1
          /\ n' = arg
          /\ factors' = <<>>
          /\ pc' = IF arg = 1 THEN "pf_return" ELSE "while"
          /\ UNCHANGED outcome
  /\ UNCHANGED <<Ms, ns, fn, n0, mstack, arg, sieve, retval, result,
                 pf_ret, mu_ret, M_ret>>

\* while n != 1: a new for loop over a new sieve(itertools.count(start=2))
While ==
  /\ pc = "while"
  /\ IF n # 1
     THEN /\ sieve' = SieveNew
          /\ pc' = "for"
     ELSE /\ pc' = "pf_return"
          /\ UNCHANGED sieve
  /\ UNCHANGED <<Ms, ns, fn, n0, depth, mstack, arg, n, factors, retval, outcome,
                 result, pf_ret, mu_ret, M_ret>>

\* one iteration of for p in sieve(...): fetch p, test n%p==0
For ==
  /\ pc = "for"
  /\ IF depth + SieveFrames(sieve) > RecursionLimit
     THEN /\ Raise
          /\ UNCHANGED <<n, factors, sieve>>
     ELSE LET p == SieveNext(sieve) IN
          IF Divides(n, p)
          THEN /\ Len(factors) < MaxFactors
               /\ factors' = Append(factors, p)
               /\ n' = Quotient(n, p)
               /\ pc' = "while"
               /\ UNCHANGED <<sieve, outcome>>
          ELSE /\ sieve' = SieveAdvance(sieve)
               /\ UNCHANGED <<n, factors, pc, outcome>>
  /\ UNCHANGED <<Ms, ns, fn, n0, depth, mstack, arg, retval, result,
                 pf_ret, mu_ret, M_ret>>

\* return factors
prime_factors_Return ==
  /\ pc = "pf_return"
  /\ depth' = depth - 1
  /\ pf_ret' = pf_ret \cup {<<arg, factors>>}
  /\ IF fn = "prime_factors"
     THEN /\ result' = <<factors>>
          /\ outcome' = "returned"
          /\ pc' = "done"
     ELSE /\ pc' = "mu_body"
          /\ UNCHANGED <<result, outcome>>
  /\ UNCHANGED <<Ms, ns, fn, n0, mstack, arg, n, factors, sieve, retval, mu_ret, M_ret>>

\* the body of mu after factors = prime_factors(n), up to its return; when
\* the caller is M, M goes on: return mu(n), or call M(n-1)
mu_Body ==
  /\ pc = "mu_body"
  /\ depth' = depth - 1
  /\ mu_ret' = mu_ret \cup {<<arg, MuValue(factors)>>}
  /\ IF fn = "mu"
     THEN /\ result' = <<MuValue(factors)>>
          /\ outcome' = "returned"
          /\ pc' = "done"
          /\ UNCHANGED <<mstack, arg, retval>>
     ELSE /\ mstack' = [mstack EXCEPT ![Len(mstack)].muv = MuValue(factors)]
          /\ IF MIsBase(arg)
             THEN /\ retval' = MuValue(factors)
                  /\ pc' = "M_return"
                  /\ UNCHANGED arg
             ELSE /\ arg' = MNextArg(arg)
                  /\ pc' = "M"
                  /\ UNCHANGED retval
          /\ UNCHANGED <<result, outcome>>
  /\ UNCHANGED <<Ms, ns, fn, n0, n, factors, sieve, pf_ret, M_ret>>

\* the innermost frame of M returns retval; its caller, if any, adds its
\* mu(n) and returns in turn
M_Return ==
  /\ pc = "M_return"
  /\ depth' = depth - 1
  /\ M_ret' = M_ret \cup {<<mstack[Len(mstack)].n, retval>>}
  /\ mstack' = SubSeq(mstack, 1, Len(mstack) - 1)
  /\ IF Len(mstack) = 1
     THEN IF fn = "cell"
          THEN /\ Ms' = Append(Ms, retval)
               /\ pc' = "comprehension"
               /\ UNCHANGED <<result, outcome, retval>>
          ELSE /\ result' = <<retval>>
               /\ outcome' = "returned"
               /\ pc' = "done"
               /\ UNCHANGED <<retval, Ms>>
     ELSE /\ retval' = MCombine(mstack[Len(mstack) - 1].muv, retval)
          /\ UNCHANGED <<result, outcome, pc, Ms>>
  /\ UNCHANGED <<ns, fn, n0, arg, n, factors, sieve, pf_ret, mu_ret>>

Next ==
  \/ Call
  \/ M_Enter
  \/ mu_Enter
  \/ prime_factors_Enter
  \/ While
  \/ For
  \/ prime_factors_Return
  \/ mu_Body
  \/ M_Return
  \/ Cell
  \/ Comprehension

Spec == Init /\ [][Next]_vars

SpecDeep == InitDeep /\ [][Next]_vars

(* ---- arithmetic the properties are stated with ---- *)

RECURSIVE Product(_)
Product(s) == IF s = <<>> THEN 1 ELSE Head(s) * Product(Tail(s))

IsPrime(p) == p >= 2 /\ \A d \in 2..(p - 1) : p % d # 0

IsSorted(s) == \A i \in 1..(Len(s) - 1) : s[i] <= s[i + 1]

\* number of positions of s holding p
Count(s, p) == Cardinality({i \in 1..Len(s) : s[i] = p})

RECURSIVE Multiplicity(_, _)
\* the largest e with p^e dividing m, for m >= 1 and p >= 2
Multiplicity(p, m) ==
  IF m % p = 0 THEN 1 + Multiplicity(p, m \div p) ELSE 0

PrimeDivisors(m) == {p \in 2..m : IsPrime(p) /\ m % p = 0}

HasSquareFactor(m) == \E p \in 2..m : IsPrime(p) /\ m % (p * p) = 0

\* the logged values of each function at a
PfLogged(a) == {r[2] : r \in {q \in pf_ret : q[1] = a}}
MuLogged(a) == {r[2] : r \in {q \in mu_ret : q[1] = a}}
MLogged(a) == {r[2] : r \in {q \in M_ret : q[1] = a}}

\* the logged value of mu at a (when there is one)
MuAt(a) == CHOOSE v \in MuLogged(a) : TRUE

RECURSIVE SumMuOver(_)
\* the sum of the logged mu(k) for k in the set S
SumMuOver(S) ==
  IF S = {} THEN 0
  ELSE LET k == CHOOSE x \in S : TRUE IN MuAt(k) + SumMuOver(S \ {k})

(* ---- properties ---- *)

C3_MuRange ==
  \A r \in mu_ret : r[1] >= 1 => r[2] \in {-1, 0, 1}

C3_Witness ==
  \A v \in {-1, 0, 1} : \E r \in mu_ret : r[1] >= 1 /\ r[2] = v

\* C4: for every n >= 1 divisible by the square of a prime, mu(n) = 0,
\* whether the number of prime factors is even or odd.
C4_SquareFactorGivesZero ==
  \A r \in mu_ret : (r[1] >= 1 /\ HasSquareFactor(r[1])) => r[2] = 0

C4_Witness ==
  \A parity \in {0, 1} :
     \E r \in mu_ret : \E fs \in PfLogged(r[1]) :
        /\ r[1] >= 1
        /\ HasSquareFactor(r[1])
        /\ Len(fs) % 2 = parity
        /\ r[2] = 0

C6_MuOfOne ==
  /\ \A fs \in PfLogged(1) : fs = <<>>
  /\ \A v \in MuLogged(1) : v = 1 /\ PfLogged(1) # {}

C6_Witness ==
  fn = "mu" /\ n0 = 1 /\ outcome = "returned" /\ result = <<1>>

\* C7: for every n >= 1, M(n) equals the sum of mu(k) over all k from 1 to n.
C7_MIsSumOfMu ==
  \A r \in M_ret : r[1] >= 1 =>
     /\ \A k \in 1..r[1] : Cardinality(MuLogged(k)) = 1
     /\ r[2] = SumMuOver(1..r[1])

C7_Witness ==
  \E r \in M_ret : r[1] >= 10 /\ r[2] = SumMuOver(1..r[1]) /\ r[2] # 0

\* C8: M(1) = mu(1) = 1, and for every n > 1, M(n) = M(n-1) + mu(n).
C8_MRecurrence ==
  /\ \A v \in MLogged(1) : v = 1 /\ MuLogged(1) = {1}
  /\ \A r \in M_ret : r[1] > 1 =>
        \E q \in MLogged(r[1] - 1) : \E m \in MuLogged(r[1]) : r[2] = q + m

C8_Witness ==
  /\ MLogged(1) = {1}
  /\ \E r \in M_ret : r[1] > 1 /\ MuLogged(r[1]) = {-1} /\ MLogged(r[1] - 1) = {r[2] + 1}

\* C9: when n < 1 is passed to prime_factors, mu or M, the call fails with an
\* invalid-argument error reported synchronously to the caller: it does no
\* work, returns no result and does not run on.
C9_InvalidInputRejected ==
  n0 < 1 => (pc = "call" \/ outcome = "InvalidArgument")

\* C10: on valid input every function returns a result: for every n >= 1 the
\* call of prime_factors(n), mu(n) or M(n) never ends in an error.
C10_TotalOnValidInput ==
  n0 >= 1 => outcome # "RecursionError"

\* C11: the summatory function takes the stated values: M(1) = 1, M(2) = 0,
\* M(3) = -1, M(4) = -1 and M(10) = -1.
C11_MScenarios ==
  /\ MLogged(1) \subseteq {1}
  /\ MLogged(2) \subseteq {0}
  /\ MLogged(3) \subseteq {-1}
  /\ MLogged(4) \subseteq {-1}
  /\ MLogged(10) \subseteq {-1}

C11_Witness ==
  /\ MLogged(1) = {1}
  /\ MLogged(2) = {0}
  /\ MLogged(3) = {-1}
  /\ MLogged(4) = {-1}
  /\ MLogged(10) = {-1}

\* C12: the factorization takes the stated values: prime_factors(1) is the
\* empty sequence, prime_factors(12) = [2, 2, 3] and prime_factors(17) = [17].
C12_FactorScenarios ==
  /\ PfLogged(1) \subseteq {<<>>}
  /\ PfLogged(12) \subseteq {<<2, 2, 3>>}
  /\ PfLogged(17) \subseteq {<<17>>}

C12_Witness ==
  /\ PfLogged(1) = {<<>>}
  /\ PfLogged(12) = {<<2, 2, 3>>}
  /\ PfLogged(17) = {<<17>>}

\* the smallest prime that divides m (m >= 2)
SmallestPrimeDivisor(m) ==
  CHOOSE p \in 2..m :
     /\ IsPrime(p) /\ m % p = 0
     /\ \A q \in 2..(p - 1) : ~(IsPrime(q) /\ m % q = 0)

\* while a call prime_factors(n), n >= 2, searches: the values the sieve has
\* yielded are exactly the primes below its counter, in increasing order,
\* none of them divides the remaining quotient, and the next value is a prime
C13_SearchState ==
  (pc = "for" /\ arg >= 2) =>
     /\ \A i \in 1..(Len(sieve.filters) - 1) : sieve.filters[i] < sieve.filters[i + 1]
     /\ SeqToSet(sieve.filters) = {q \in 2..(sieve.count - 1) : IsPrime(q)}
     /\ \A i \in 1..Len(sieve.filters) : n % sieve.filters[i] # 0
     /\ IsPrime(SieveNext(sieve))

\* every while iteration starts its search at 2, and the value appended is
\* the smallest prime dividing the remaining quotient
C13_SearchStep ==
  /\ (pc = "while" /\ arg >= 2 /\ pc' = "for") =>
        (sieve'.count = 2 /\ sieve'.filters = <<>>)
  /\ (pc = "for" /\ arg >= 2 /\ pc' = "while") =>
        factors' = Append(factors, SmallestPrimeDivisor(n))

\* C13: in every iteration of the while loop of prime_factors (n >= 2) the
\* candidate search restarts at 2 and the value appended to factors is the
\* smallest prime dividing the remaining quotient; the sieve yields exactly
\* the primes, in increasing order, so no composite is tried as a divisor.
C13_SmallestPrimeEachIteration ==
  []C13_SearchState /\ [][C13_SearchStep]_vars

C13_Witness ==
  /\ pc = "for" /\ arg >= 2
  /\ Len(factors) >= 1
  /\ sieve.filters = <<2, 3, 5>>

\* in the loop of a call prime_factors(n0), n0 >= 1: factors recorded so far
\* times the remaining quotient is n0, and the quotient is positive
C14_LoopState ==
  (pc \in {"while", "for", "pf_return"} /\ arg >= 1) =>
     (Product(factors) * n = arg /\ n >= 1)

\* every recorded factor makes the remaining quotient strictly smaller
C14_LoopStep ==
  (pc = "for" /\ arg >= 1 /\ Len(factors') > Len(factors)) => (n' < n /\ n' >= 1)

RECURSIVE ForwardFrom(_, _, _, _)
\* a single forward pass: total carried from k - 1, mu(k) added for k..N,
\* each partial sum appended to out
ForwardFrom(k, N, total, out) ==
  IF k > N THEN out
  ELSE ForwardFrom(k + 1, N, total + MuAt(k), Append(out, total + MuAt(k)))

ForwardPass(N) == ForwardFrom(1, N, 0, <<>>)

\* C15: for every N >= 1 the sequence obtained by calling the recursive M(n)
\* for each n in 1..N is, element by element, the sequence a single forward
\* accumulation pass builds from 0 by adding mu(n) for n = 1..N.
C15_RecursiveEqualsForward ==
  fn = "cell" =>
     /\ \A k \in 1..Len(Ms) : Cardinality(MuLogged(k)) = 1
     /\ Ms = ForwardPass(Len(Ms))

C15_Witness ==
  /\ fn = "cell" /\ pc = "done"
  /\ Len(Ms) = n0 /\ n0 >= 6
  /\ Ms = ForwardPass(n0)

RECURSIVE TrialDivisionSqrt(_, _, _)
\* trial division that gives up once the candidate p exceeds the square root
\* of the remaining quotient m, which is then recorded as the last factor
TrialDivisionSqrt(m, p, acc) ==
  IF m = 1 THEN acc
  ELSE IF p * p > m THEN Append(acc, m)
  ELSE IF m % p = 0 THEN TrialDivisionSqrt(m \div p, 2, Append(acc, p))
  ELSE TrialDivisionSqrt(m, p + 1, acc)

C17_AlignedSequences ==
  (fn = "cell" /\ pc # "cell") =>
     /\ Len(ns) = n0
     /\ \A i \in 1..Len(ns) : ns[i] = i
     /\ Len(Ms) <= Len(ns)
     /\ \A i \in 1..Len(Ms) : MLogged(ns[i]) = {Ms[i]}
     /\ pc = "done" => (Len(Ms) = n0 /\ result = <<Ms>>)

C17_Witness ==
  /\ fn = "cell" /\ pc = "done"
  /\ n0 >= 5
  /\ Len(ns) = n0 /\ Len(Ms) = n0
  /\ Ms[n0] \in MLogged(n0)

\* C18: for every n of the notebook's range with 1 < n <= 500 the computed
\* M(n) satisfies |M(n)| < sqrt(n), that is M(n) * M(n) < n.
C18_MertensBound ==
  \A r \in M_ret : (1 < r[1] /\ r[1] <= RangeN) => r[2] * r[2] < r[1]

C18_Witness ==
  /\ MLogged(RangeN) # {}
  /\ \A k \in 2..RangeN : MLogged(k) # {}
  /\ \E r \in M_ret : r[1] <= RangeN /\ r[2] * r[2] >= 64

====
